---- MODULE Spec2Model ----
(***************************************************************************)
(* github-starcleaner: the application state (state/app_state.rs), the     *)
(* orchestration tasks of the views (ui/app_view.rs, ui/setup_view.rs,     *)
(* ui/repository_list.rs) and the remote client (services/github.rs).      *)
(*                                                                         *)
(* The UI loop serialises every access to AppState: each intent handler    *)
(* and each cx.update closure of a spawned task is one atomic step.  A     *)
(* spawned task is a record in the bag `tasks`; it is "spawned" until its  *)
(* future is first polled (it then reads AppState and makes its remote     *)
(* call) and "returned" until its completion closure has run.              *)
(*                                                                         *)
(* Spec is the program.  SpecFn calls the methods of AppState once on      *)
(* each of a bounded set of sessions and arguments.                        *)
(***************************************************************************)
EXTENDS Integers, Sequences, FiniteSets, Bags, TLC

VARIABLES
    state,      \* the global AppState (state/app_state.rs:93-108)
    view,       \* the SetupView entity (ui/setup_view.rs:6-11)
    tasks,      \* bag of spawned, not yet finished, async tasks
    server,     \* ids the account has starred on the remote
    disk,       \* personal_access_token of the persisted config file
    last,       \* history: the code path taken by the last step
    clicks,     \* history: the number of user intents handled so far
    call        \* history: the method call of the last step of SpecFn

vars == <<state, view, tasks, server, disk, last, clicks, call>>

---------------------------------------------------------------------------
(* Bounds of the model *)

\* number of repositories the account has starred when the process starts
NumRepos == 3
\* page size used by the model in place of the per_page argument
PerPage == 2
\* spawned tasks that may be in flight together
MaxTasks == 2
\* user intents (clicks, key presses) handled in one run
MaxClicks == 3

Repos == 1..NumRepos

---------------------------------------------------------------------------
(* Option<T>, Result *)

None == <<>>
Some(v) == <<v>>
IsSome(o) == o # <<>>
Unwrap(o) == o[1]

Min(a, b) == IF a < b THEN a ELSE b

RECURSIVE SeqToSet(_)
SeqToSet(s) == IF s = <<>> THEN {} ELSE {Head(s)} \cup SeqToSet(Tail(s))

---------------------------------------------------------------------------
(* u32: two 16-bit limbs, so that every product stays inside the checker's
   integers; an operation returns its wrapped value and whether it overflowed *)

Limb == 2^16

\* the u32 of a number below 2^31
U32(n) == [hi |-> n \div Limb, lo |-> n % Limb]

\* page - 1 on u32
sub_one(page) ==
    IF page = 0
    THEN [val |-> [hi |-> Limb - 1, lo |-> Limb - 1], overflow |-> TRUE]
    ELSE [val |-> U32(page - 1), overflow |-> FALSE]

\* a * n on u32, n below 2^8
mul_u32(a, n) ==
    LET lo == a.lo * n
        hi == a.hi * n + lo \div Limb
    IN  [val |-> [hi |-> hi % Limb, lo |-> lo % Limb], overflow |-> hi >= Limb]

\* a + i on u32, i below 2^16
add_u32(a, i) ==
    LET lo == a.lo + i
        hi == a.hi + lo \div Limb
    IN  [val |-> [hi |-> hi % Limb, lo |-> lo % Limb], overflow |-> hi >= Limb]

---------------------------------------------------------------------------
(* models/repository.rs *)

Owner(id) == "o" \o ToString(id)
Name(id) == "r" \o ToString(id)

\* Repository::from_octocrab_with_order: the fields the state logic reads
Repository(id, starred_order) ==
    [id |-> id, owner |-> Owner(id), name |-> Name(id), starred_order |-> starred_order]

RepoIds(repos) == [i \in 1..Len(repos) |-> repos[i].id]

\* RepositorySelection::toggle
toggle(selected_ids, id) ==
    IF id \in selected_ids THEN selected_ids \ {id} ELSE selected_ids \cup {id}

\* RepositorySelection::select_all leaving the first repository out
select_all_but_first(repos) ==
    IF repos = <<>> THEN {} ELSE SeqToSet(RepoIds(Tail(repos)))

\* RepositorySelection::select_all
select_all(repos) == SeqToSet(RepoIds(repos))

\* RepositorySelection::remove_ids calling toggle where it should call remove
RECURSIVE remove_ids_toggles(_, _)
remove_ids_toggles(selected_ids, ids) ==
    IF ids = <<>> THEN selected_ids
    ELSE remove_ids_toggles(toggle(selected_ids, Head(ids)), Tail(ids))

\* RepositorySelection::remove_ids
RECURSIVE remove_ids(_, _)
remove_ids(selected_ids, ids) ==
    IF ids = <<>> THEN selected_ids
    ELSE remove_ids(selected_ids \ {Head(ids)}, Tail(ids))

---------------------------------------------------------------------------
(* models/config.rs *)

\* AppConfig::has_token without the emptiness test
has_token_is_some(token) == IsSome(token)

\* AppConfig::has_token
has_token(token) == IF IsSome(token) THEN Unwrap(token) # "" ELSE FALSE

---------------------------------------------------------------------------
(* state/app_state.rs: enums *)

SortFields == <<"Starred", "Pushed">>

\* SortField::api_value
field_api_value(f) == IF f = "Starred" THEN "created" ELSE "updated"

\* SortDirection::toggle with both arms giving Desc
direction_toggle_to_desc(d) == "Desc"

\* SortDirection::toggle
direction_toggle(d) == IF d = "Asc" THEN "Desc" ELSE "Asc"

\* SortDirection::api_value
direction_api_value(d) == IF d = "Asc" THEN "asc" ELSE "desc"

\* PendingAction
UnstarSingle(id) == [kind |-> "UnstarSingle", id |-> id, count |-> 0]
UnstarSelected(count) == [kind |-> "UnstarSelected", id |-> 0, count |-> count]
Logout == [kind |-> "Logout", id |-> 0, count |-> 0]


\* AppState::from_config (the other fields are Default::default())
from_config(token) ==
    [screen |-> IF has_token(token) THEN "Loading" ELSE "Setup",
     token |-> token,
     github_service |-> None,
     repositories |-> <<>>,
     selection |-> {},
     loading |-> FALSE,
     loading_more |-> FALSE,
     error |-> None,
     username |-> None,
     current_page |-> 1,
     has_more |-> TRUE,
     pending_action |-> None,
     sort_field |-> "Pushed",
     sort_direction |-> "Asc"]

---------------------------------------------------------------------------
(* services/github.rs: errors and results *)

NoErr == [kind |-> "", status |-> 0, text |-> ""]

\* anyhow!(TokenExpiredError), Display at github.rs:11-15
TokenExpiredError ==
    [kind |-> "TokenExpiredError", status |-> 401, text |-> "Token expired or invalid"]

\* an octocrab::Error under .context(text): Display prints the context
OctocrabError(outcome, text) ==
    IF outcome = "unauthorized"
    THEN [kind |-> "GitHub", status |-> 401, text |-> text]
    ELSE [kind |-> "Transport", status |-> 0, text |-> text]

\* what a remote call can come back with
RemoteOutcomes == {"ok", "unauthorized", "unavailable"}

\* services::is_token_expired_error: the authentication-expiry class of the
\* error taxonomy
is_token_expired_error(err) ==
    err.kind = "TokenExpiredError" \/ (err.kind = "GitHub" /\ err.status = 401)

\* GitHubService::new
GitHubService(token) == [token |-> token]

UserName == "user"

NoRes ==
    [ok |-> FALSE, err |-> NoErr, service |-> None, repos |-> <<>>,
     has_more |-> FALSE, page |-> 0, results |-> <<>>]

OkRes == [NoRes EXCEPT !.ok = TRUE]
ErrRes(e) == [NoRes EXCEPT !.err = e]

---------------------------------------------------------------------------
(* services/github.rs: the starred list *)

\* the remote's order of the account's stars under a sort parameter
RemoteOrder(sort, direction) ==
    LET asc == [i \in 1..NumRepos |->
                   IF sort = "created" THEN i
                   ELSE IF i = 1 THEN NumRepos ELSE i - 1]
    IN  IF direction = "asc" THEN asc
        ELSE [i \in 1..NumRepos |-> asc[NumRepos + 1 - i]]

\* GET /user/starred?sort=&direction=&per_page=&page= (page 0 is served as page 1)
RemotePage(srv, sort, direction, per_page, page) ==
    LET all == SelectSeq(RemoteOrder(sort, direction), LAMBDA id : id \in srv)
        p == IF page = 0 THEN 1 ELSE page
    IN  SubSeq(all, (p - 1) * per_page + 1, Min(p * per_page, Len(all)))

\* the request fetch_starred_repos_page builds: the query parameters of
\* GET /user/starred; `page as u8` keeps the low 8 bits of the u32
starred_request(page, per_page, sort, direction) ==
    [sort |-> sort, direction |-> direction, per_page |-> per_page,
     page |-> page % 256]

\* a panic of the spawned task under .context(text)
JoinError(text) == [kind |-> "Join", status |-> 0, text |-> text]

\* GitHubService::fetch_starred_repos_page with has_more = !items.is_empty()
fetch_starred_repos_page_nonempty(srv, page, per_page, sort, direction, outcome, checked) ==
    IF outcome # "ok"
    THEN ErrRes(OctocrabError(outcome, "Failed to fetch starred repos"))
    ELSE LET req == starred_request(page, per_page, sort, direction)
             items == RemotePage(srv, req.sort, req.direction, req.per_page,
                                 req.page)
             has_more == Len(items) > 0
             page_minus_one == sub_one(page)
             base_order == mul_u32(page_minus_one.val, per_page)
             orders == [i \in 1..Len(items) |-> add_u32(base_order.val, i - 1)]
             overflow == \/ page_minus_one.overflow
                         \/ base_order.overflow
                         \/ \E i \in 1..Len(items) : orders[i].overflow
         IN  IF checked /\ overflow
             THEN ErrRes(JoinError("Task failed"))
             ELSE [OkRes EXCEPT
                     !.repos = [i \in 1..Len(items) |->
                                   Repository(items[i], orders[i].val)],
                     !.has_more = has_more,
                     !.page = page]

\* GitHubService::fetch_starred_repos_page; page is a u32 below 2^31, and
\* `checked` tells whether the build panics on arithmetic overflow (it wraps
\* otherwise)
fetch_starred_repos_page(srv, page, per_page, sort, direction, outcome, checked) ==
    IF outcome # "ok"
    THEN ErrRes(OctocrabError(outcome, "Failed to fetch starred repos"))
    ELSE LET req == starred_request(page, per_page, sort, direction)
             items == RemotePage(srv, req.sort, req.direction, req.per_page,
                                 req.page)
             has_more == Len(items) = per_page
             page_minus_one == sub_one(page)
             base_order == mul_u32(page_minus_one.val, per_page)
             orders == [i \in 1..Len(items) |-> add_u32(base_order.val, i - 1)]
             overflow == \/ page_minus_one.overflow
                         \/ base_order.overflow
                         \/ \E i \in 1..Len(items) : orders[i].overflow
         IN  IF checked /\ overflow
             THEN ErrRes(JoinError("Task failed"))
             ELSE [OkRes EXCEPT
                     !.repos = [i \in 1..Len(items) |->
                                   Repository(items[i], orders[i].val)],
                     !.has_more = has_more,
                     !.page = page]

\* GitHubService::validate_token
validate_token(outcome) ==
    IF outcome = "ok" THEN OkRes
    ELSE ErrRes(OctocrabError(outcome,
            "Failed to validate token - please check your Personal Access Token"))

---------------------------------------------------------------------------
(* services/github.rs: unstar *)

\* Result<u16, octocrab::Error> of the DELETE
Status(code) == [tag |-> "Ok", status |-> code]
ConnectionFailed == [tag |-> "Err", status |-> 0]
UnstarResponses == {Status(204), Status(401), Status(404)}

\* GitHubService::unstar_repo: the match on the response
unstar_repo(id, response) ==
    IF response.tag = "Ok" /\ (response.status = 204 \/ response.status = 200)
    THEN OkRes
    ELSE IF response.tag = "Ok" /\ response.status = 401
    THEN ErrRes(TokenExpiredError)
    ELSE IF response.tag = "Ok"
    THEN ErrRes([kind |-> "Message", status |-> response.status,
                 text |-> "Failed to unstar " \o Owner(id) \o "/" \o Name(id)
                          \o ": HTTP " \o ToString(response.status)])
    ELSE ErrRes([kind |-> "Message", status |-> 0,
                 text |-> "Failed to unstar " \o Owner(id) \o "/" \o Name(id)
                          \o ": connection failed"])

\* the remote's side of DELETE /user/starred/{owner}/{repo}
RemoteUnstar(srv, id, response) ==
    IF response.tag = "Ok" /\ response.status \div 100 = 2 THEN srv \ {id} ELSE srv

---------------------------------------------------------------------------
(* services/config.rs *)

IoError == "Failed to write config file"

\* ConfigService::save: the file's token after the call, and the Result
save(old, token, io_ok) ==
    [disk |-> IF io_ok THEN token ELSE old, ok |-> io_ok]

\* ConfigService::save_token
save_token(old, token, io_ok) == save(old, Some(token), io_ok)

\* ConfigService::clear_token
clear_token(old, io_ok) == save(old, None, io_ok)

---------------------------------------------------------------------------
(* state/app_state.rs: methods *)

\* Vec::retain(|r| !ids.contains(&r.id))
Retain(repos, ids) == SelectSeq(repos, LAMBDA r : r.id \notin SeqToSet(ids))

\* AppState::remove_repos without the eviction from the selection
remove_repos_keeps_selection(st, ids) ==
    [st EXCEPT !.repositories = Retain(st.repositories, ids)]

\* AppState::remove_repos
remove_repos(st, ids) ==
    [st EXCEPT !.repositories = Retain(st.repositories, ids),
               !.selection = remove_ids(st.selection, ids)]

\* AppState::logout leaving the screen as it is
logout_keeps_screen(st, io_ok) ==
    LET cleared == [st EXCEPT !.github_service = None,
                              !.username = None,
                              !.repositories = <<>>,
                              !.selection = {}]
    IN  IF io_ok THEN [cleared EXCEPT !.token = None] ELSE cleared

\* AppState::logout: the state after it; the `?` returns before the
\* in-memory token is cleared when clear_token fails
logout(st, io_ok) ==
    LET cleared == [st EXCEPT !.github_service = None,
                              !.username = None,
                              !.repositories = <<>>,
                              !.selection = {},
                              !.screen = "Setup"]
    IN  IF io_ok THEN [cleared EXCEPT !.token = None] ELSE cleared

TokenExpiredMessage == "Token expired. Please login again."

\* format!("{}: {}", context, err)
Format(context, err) == context \o ": " \o err.text

\* AppState::handle_api_error with the logout of the expiry branch left out
handle_api_error_without_logout(st, err, context, io_ok) ==
    IF is_token_expired_error(err)
    THEN [st EXCEPT !.error = Some(TokenExpiredMessage)]
    ELSE [st EXCEPT !.error = Some(Format(context, err))]

\* AppState::handle_api_error with every error treated as an expiry
handle_api_error_always_logout(st, err, context, io_ok) ==
    [logout(st, io_ok) EXCEPT !.error =
        IF is_token_expired_error(err) THEN Some(TokenExpiredMessage)
        ELSE Some(Format(context, err))]

\* AppState::handle_api_error
handle_api_error(st, err, context, io_ok) ==
    IF is_token_expired_error(err)
    THEN [logout(st, io_ok) EXCEPT !.error = Some(TokenExpiredMessage)]
    ELSE [st EXCEPT !.error = Some(Format(context, err))]

\* the persisted token after a handle_api_error
handle_api_error_disk(err, io_ok) ==
    IF is_token_expired_error(err) THEN clear_token(disk, io_ok).disk ELSE disk

---------------------------------------------------------------------------
(* Spawned tasks: cx.spawn(async move |..| { .. }).detach() *)

\* history kept with a task: the pagination state when its intent ran
Pre(st) ==
    [repositories |-> st.repositories, selection |-> st.selection,
     current_page |-> st.current_page, has_more |-> st.has_more]

\* kind: the spawning function; ids, tok: what the closure captured by move
Task(kind, ids, tok, st) ==
    [kind |-> kind, pc |-> "spawned", ids |-> ids, tok |-> tok,
     pre |-> Pre(st), res |-> NoRes]

InFlight == BagToSet(tasks)
CanSpawn == BagCardinality(tasks) < MaxTasks
Spawn(t) == tasks' = tasks (+) SetToBag({t})
Finish(t) == tasks' = tasks (-) SetToBag({t})
Step(t, u) == tasks' = (tasks (-) SetToBag({t})) (+) SetToBag({u})

Returned(t, res) == [t EXCEPT !.pc = "returned", !.res = res]

\* one more user intent is handled
Click == clicks < MaxClicks /\ clicks' = clicks + 1

---------------------------------------------------------------------------
(* main.rs, AppView::new: the state after construction *)

TokenValues == {"", "tok"}

\* no method call recorded
NoCall ==
    [fn |-> "", before |-> from_config(None), disk |-> None, ids |-> <<>>,
     err |-> NoErr, context |-> "", io_ok |-> TRUE,
     page |-> 0, per_page |-> 0, res |-> NoRes,
     response |-> [tag |-> "", status |-> 0], field |-> "",
     request |-> [sort |-> "", direction |-> "", per_page |-> 0, page |-> 0]]

Init ==
    /\ disk \in {None} \cup {Some(tok) : tok \in TokenValues}
    /\ state = from_config(disk)
    /\ view = [error |-> None, validating |-> FALSE]
    /\ tasks = IF from_config(disk).screen = "Loading"
               THEN SetToBag({Task("init", <<>>, "", from_config(disk))})
               ELSE EmptyBag
    /\ server = Repos
    /\ last = "new"
    /\ clicks = 0
    /\ call = NoCall

---------------------------------------------------------------------------
(* ui/app_view.rs *)

\* AppView::render: the transition into loading
RenderLoading ==
    /\ state.screen = "Loading"
    /\ ~state.loading
    /\ CanSpawn
    /\ state' = [state EXCEPT !.loading = TRUE]
    /\ Spawn(Task("init", <<>>, "", state))
    /\ UNCHANGED call
    /\ last' = ""
    /\ UNCHANGED <<view, server, disk, clicks>>

\* AppView::trigger_load_repos: the first poll, up to the end of the remote calls
StartInit(t) ==
    /\ t \in InFlight /\ t.kind = "init" /\ t.pc = "spawned"
    /\ IF state.token = None
       THEN /\ state' = [state EXCEPT !.screen = "Setup",
                                     !.error = Some("No token found")]
            /\ Finish(t)
            /\ UNCHANGED call
            /\ last' = "init_no_token"
       ELSE /\ \E validated \in RemoteOutcomes, fetched \in RemoteOutcomes,
                 checked \in BOOLEAN :
                 LET v == validate_token(validated)
                     f == fetch_starred_repos_page(server, 1, PerPage,
                              field_api_value(state.sort_field),
                              direction_api_value(state.sort_direction),
                         fetched, checked)
                     res == IF ~v.ok THEN v
                            ELSE [f EXCEPT !.service =
                                     Some(GitHubService(Unwrap(state.token)))]
                 IN  Step(t, Returned(t, res))
            /\ state' = state
            /\ UNCHANGED call
            /\ last' = ""
    /\ UNCHANGED <<view, server, disk, clicks>>

\* AppView::trigger_load_repos: the closing cx.update
CompleteInit(t) ==
    /\ t \in InFlight /\ t.kind = "init" /\ t.pc = "returned"
    /\ IF t.res.ok
       THEN /\ state' = [state EXCEPT !.github_service = t.res.service,
                                     !.username = Some(UserName),
                                     !.repositories = t.res.repos,
                                     !.loading = FALSE,
                                     !.current_page = 1,
                                     !.has_more = t.res.has_more,
                                     !.screen = "RepositoryList"]
            /\ UNCHANGED call
            /\ last' = "init_ok"
       ELSE /\ state' = [state EXCEPT
                           !.error = Some("Failed to load: " \o t.res.err.text),
                           !.screen = "Setup",
                           !.loading = FALSE]
            /\ UNCHANGED call
            /\ last' = IF is_token_expired_error(t.res.err)
                       THEN "init_err_auth" ELSE "init_err"
    /\ Finish(t)
    /\ UNCHANGED <<view, server, disk, clicks>>

---------------------------------------------------------------------------
(* ui/setup_view.rs *)

\* SetupView::submit_token, reached from the Connect button or the Enter key
SubmitToken(tok) ==
    /\ Click
    /\ state.screen = "Setup"
    /\ ~view.validating
    /\ IF tok = ""
       THEN /\ view' = [view EXCEPT
                          !.error = Some("Please enter a Personal Access Token")]
            /\ tasks' = tasks
            /\ UNCHANGED call
            /\ last' = ""
       ELSE /\ CanSpawn
            /\ view' = [validating |-> TRUE, error |-> None]
            /\ Spawn(Task("submit", <<>>, tok, state))
            /\ UNCHANGED call
            /\ last' = ""
    /\ UNCHANGED <<state, server, disk>>

\* SetupView::submit_token: the spawned validation
StartSubmit(t) ==
    /\ t \in InFlight /\ t.kind = "submit" /\ t.pc = "spawned"
    /\ \E validated \in RemoteOutcomes :
          LET v == validate_token(validated)
          IN  Step(t, Returned(t, IF v.ok
                                  THEN [v EXCEPT !.service = Some(GitHubService(t.tok))]
                                  ELSE v))
    /\ UNCHANGED call
    /\ last' = ""
    /\ UNCHANGED <<state, view, server, disk, clicks>>

\* SetupView::submit_token: the closing view.update
CompleteSubmit(t) ==
    /\ t \in InFlight /\ t.kind = "submit" /\ t.pc = "returned"
    /\ IF t.res.ok
       THEN \E io_ok \in BOOLEAN :
              LET saved == save_token(disk, t.tok, io_ok)
              IN  /\ disk' = saved.disk
                  /\ IF ~saved.ok
                     THEN /\ view' = [error |-> Some("Failed to save token: " \o IoError),
                                      validating |-> FALSE]
                          /\ state' = state
                          /\ UNCHANGED call
                          /\ last' = "submit_save_failed"
                     ELSE /\ state' = [state EXCEPT
                                         !.token = Some(t.tok),
                                         !.github_service = t.res.service,
                                         !.username = Some(UserName),
                                         !.screen = "Loading"]
                          /\ view' = view
                          /\ UNCHANGED call
                          /\ last' = "submit_ok"
       ELSE /\ view' = [error |-> Some("Invalid token: " \o t.res.err.text),
                        validating |-> FALSE]
            /\ state' = state
            /\ disk' = disk
            /\ UNCHANGED call
            /\ last' = "submit_invalid"
    /\ Finish(t)
    /\ UNCHANGED <<server, clicks>>

---------------------------------------------------------------------------
(* ui/repository_list.rs: what RepositoryListView::render offers *)

\* the list view is on screen and no confirmation dialog covers it
ListShown == state.screen = "RepositoryList" /\ state.pending_action = None

\* the rows are rendered (the `if loading` branch shows the indicator instead)
RowsShown == ListShown /\ ~state.loading

\* AppState::get_selected_ids; unstar_selected computes the same list
get_selected_ids(st) ==
    RepoIds(SelectSeq(st.repositories, LAMBDA r : r.id \in st.selection))

---------------------------------------------------------------------------
(* ui/repository_list.rs: selection *)

\* render_repository_row: the checkbox's on_click
ToggleSelect(id) ==
    /\ Click
    /\ RowsShown
    /\ id \in SeqToSet(RepoIds(state.repositories))
    /\ state' = [state EXCEPT !.selection = toggle(state.selection, id)]
    /\ UNCHANGED call
    /\ last' = ""
    /\ UNCHANGED <<view, tasks, server, disk>>

\* RepositoryListView::render: the state of the Select All checkbox,
\* computed at each render from the state it reads
all_selected(st) ==
    /\ Cardinality(st.selection) = Len(st.repositories)
    /\ Len(st.repositories) > 0

\* RepositoryListView::toggle_select_all: its update_global closure
toggle_select_all(st) ==
    [st EXCEPT !.selection =
        IF Cardinality(st.selection) = Len(st.repositories)
        THEN {} ELSE select_all(st.repositories)]

\* the Select All checkbox's on_click
ToggleSelectAll ==
    /\ Click
    /\ ListShown
    /\ state' = toggle_select_all(state)
    /\ UNCHANGED call
    /\ last' = ""
    /\ UNCHANGED <<view, tasks, server, disk>>

---------------------------------------------------------------------------
(* ui/repository_list.rs: reload and load more *)

\* RepositoryListView::reload_repos without its is_loading check
reload_repos_unguarded(st) ==
    /\ CanSpawn
    /\ state' = [st EXCEPT !.loading = TRUE,
                           !.repositories = <<>>,
                           !.selection = {},
                           !.current_page = 1,
                           !.has_more = TRUE]
    /\ Spawn(Task("reload", <<>>, "", st))
    /\ UNCHANGED call
    /\ last' = ""

\* RepositoryListView::reload_repos with is_loading = state.loading alone
reload_repos_ignores_loading_more(st) ==
    IF st.loading
    THEN /\ state' = st
         /\ tasks' = tasks
         /\ UNCHANGED call
         /\ last' = "reload_skipped"
    ELSE reload_repos_unguarded(st)

\* RepositoryListView::reload_repos, called with the state `st` its caller left
reload_repos(st) ==
    IF st.loading \/ st.loading_more
    THEN /\ state' = st
         /\ tasks' = tasks
         /\ UNCHANGED call
         /\ last' = "reload_skipped"
    ELSE /\ CanSpawn
         /\ state' = [st EXCEPT !.loading = TRUE,
                                !.repositories = <<>>,
                                !.selection = {},
                                !.current_page = 1,
                                !.has_more = TRUE]
         /\ Spawn(Task("reload", <<>>, "", st))
         /\ UNCHANGED call
         /\ last' = ""

\* the update_global closure of the sort field buttons' on_click
sort_field_click(st, field) ==
    IF st.sort_field = field
    THEN [st EXCEPT !.sort_direction = direction_toggle(st.sort_direction)]
    ELSE [st EXCEPT !.sort_field = field, !.sort_direction = "Asc"]

\* the update_global closure of the direction indicator's on_click
sort_direction_click(st) ==
    [st EXCEPT !.sort_direction = direction_toggle(st.sort_direction)]

\* the sort field buttons' on_click
SortFieldClick(field) ==
    /\ Click
    /\ ListShown
    /\ reload_repos(sort_field_click(state, field))
    /\ UNCHANGED <<view, server, disk>>

\* the direction indicator's on_click
SortDirectionClick ==
    /\ Click
    /\ ListShown
    /\ reload_repos(sort_direction_click(state))
    /\ UNCHANGED <<view, server, disk>>

\* reload_repos: the first poll of the spawned task, up to the end of the fetch
StartReload(t) ==
    /\ t \in InFlight /\ t.kind = "reload" /\ t.pc = "spawned"
    /\ IF state.github_service = None
       THEN Finish(t) /\ UNCHANGED call /\ last' = "reload_no_service"
       ELSE /\ \E fetched \in RemoteOutcomes, checked \in BOOLEAN :
                 Step(t, Returned(t,
                     fetch_starred_repos_page(server, 1, PerPage,
                         field_api_value(state.sort_field),
                         direction_api_value(state.sort_direction),
                         fetched, checked)))
            /\ UNCHANGED call
            /\ last' = ""
    /\ UNCHANGED <<state, view, server, disk, clicks>>

\* reload_repos: the closing cx.update
CompleteReload(t) ==
    /\ t \in InFlight /\ t.kind = "reload" /\ t.pc = "returned"
    /\ LET st == [state EXCEPT !.loading = FALSE]
       IN  IF t.res.ok
           THEN /\ state' = [st EXCEPT !.repositories = t.res.repos,
                                      !.current_page = 1,
                                      !.has_more = t.res.has_more]
                /\ disk' = disk
                /\ UNCHANGED call
                /\ last' = "reload_ok"
           ELSE \E io_ok \in BOOLEAN :
                  /\ state' = handle_api_error(st, t.res.err, "Failed to reload", io_ok)
                  /\ disk' = handle_api_error_disk(t.res.err, io_ok)
                  /\ UNCHANGED call
                  /\ last' = IF ~is_token_expired_error(t.res.err) THEN "reload_err"
                             ELSE IF io_ok THEN "reload_err_auth"
                             ELSE "reload_err_auth_io"
    /\ Finish(t)
    /\ UNCHANGED <<view, server, clicks>>

\* RepositoryListView::load_more up to the spawn, called with the state `st`
load_more(st) ==
    IF ~(~st.loading_more /\ st.has_more)
    THEN /\ state' = st
         /\ tasks' = tasks
         /\ UNCHANGED call
         /\ last' = "more_skipped"
    ELSE /\ CanSpawn
         /\ state' = [st EXCEPT !.loading_more = TRUE]
         /\ Spawn(Task("more", <<>>, "", st))
         /\ UNCHANGED call
         /\ last' = ""

\* the Load More button's on_click: the button is rendered when has_more and
\* carries its listener when !loading_more
LoadMoreClick ==
    /\ Click
    /\ RowsShown
    /\ state.has_more
    /\ ~state.loading_more
    /\ load_more(state)
    /\ UNCHANGED <<view, server, disk>>

\* load_more: the first poll of the spawned task, up to the end of the fetch
StartMore(t) ==
    /\ t \in InFlight /\ t.kind = "more" /\ t.pc = "spawned"
    /\ IF state.github_service = None
       THEN Finish(t) /\ UNCHANGED call /\ last' = "more_no_service"
       ELSE /\ \E fetched \in RemoteOutcomes, checked \in BOOLEAN :
                 Step(t, Returned(t,
                     [fetch_starred_repos_page(server, state.current_page + 1, PerPage,
                          field_api_value(state.sort_field),
                          direction_api_value(state.sort_direction),
                         fetched, checked)
                      EXCEPT !.page = state.current_page + 1]))
            /\ UNCHANGED call
            /\ last' = ""
    /\ UNCHANGED <<state, view, server, disk, clicks>>

\* the Ok arm of load_more's closing cx.update with the list replaced, not
\* extended
more_page_replaces(st, res) ==
    [st EXCEPT !.repositories = res.repos,
               !.current_page = res.page,
               !.has_more = res.has_more]

\* the Ok arm of load_more's closing cx.update with has_more left alone
more_page_keeps_has_more(st, res) ==
    [st EXCEPT !.repositories = st.repositories \o res.repos,
               !.current_page = res.page]

\* the Ok arm of load_more's closing cx.update
more_page(st, res) ==
    [st EXCEPT !.repositories = st.repositories \o res.repos,
               !.current_page = res.page,
               !.has_more = res.has_more]

\* the closing cx.update of load_more with current_page set before the match
CompleteMore_advances_on_failure(t) ==
    /\ t \in InFlight /\ t.kind = "more" /\ t.pc = "returned"
    /\ LET st == [state EXCEPT !.loading_more = FALSE,
                               !.current_page = t.res.page]
       IN  IF t.res.ok
           THEN /\ state' = [st EXCEPT !.repositories = st.repositories \o t.res.repos,
                                      !.has_more = t.res.has_more]
                /\ disk' = disk
                /\ UNCHANGED call
                /\ last' = "more_ok"
           ELSE \E io_ok \in BOOLEAN :
                  /\ state' = handle_api_error(st, t.res.err, "Failed to load more", io_ok)
                  /\ disk' = handle_api_error_disk(t.res.err, io_ok)
                  /\ UNCHANGED call
                  /\ last' = IF ~is_token_expired_error(t.res.err) THEN "more_err"
                             ELSE IF io_ok THEN "more_err_auth"
                             ELSE "more_err_auth_io"
    /\ Finish(t)
    /\ UNCHANGED <<view, server, clicks>>

\* load_more: the closing cx.update
CompleteMore(t) ==
    /\ t \in InFlight /\ t.kind = "more" /\ t.pc = "returned"
    /\ LET st == [state EXCEPT !.loading_more = FALSE]
       IN  IF t.res.ok
           THEN /\ state' = more_page(st, t.res)
                /\ disk' = disk
                /\ UNCHANGED call
                /\ last' = "more_ok"
           ELSE \E io_ok \in BOOLEAN :
                  /\ state' = handle_api_error(st, t.res.err, "Failed to load more", io_ok)
                  /\ disk' = handle_api_error_disk(t.res.err, io_ok)
                  /\ UNCHANGED call
                  /\ last' = IF ~is_token_expired_error(t.res.err) THEN "more_err"
                             ELSE IF io_ok THEN "more_err_auth"
                             ELSE "more_err_auth_io"
    /\ Finish(t)
    /\ UNCHANGED <<view, server, clicks>>

---------------------------------------------------------------------------
(* ui/repository_list.rs: the confirmable intents *)

\* the row's unstar callback: sets the pending action only
RequestUnstarSingle(id) ==
    /\ Click
    /\ RowsShown
    /\ id \in SeqToSet(RepoIds(state.repositories))
    /\ state' = [state EXCEPT !.pending_action = Some(UnstarSingle(id))]
    /\ UNCHANGED call
    /\ last' = ""
    /\ UNCHANGED <<view, tasks, server, disk>>

\* the Unstar Selected button, rendered when selection_count > 0
RequestUnstarSelected ==
    /\ Click
    /\ ListShown
    /\ Cardinality(state.selection) > 0
    /\ state' = [state EXCEPT !.pending_action =
                    Some(UnstarSelected(Cardinality(state.selection)))]
    /\ UNCHANGED call
    /\ last' = ""
    /\ UNCHANGED <<view, tasks, server, disk>>

\* the Logout button calling RepositoryListView::logout at once
RequestLogout_unconfirmed ==
    /\ Click
    /\ ListShown
    /\ \E io_ok \in BOOLEAN :
          /\ state' = logout(state, io_ok)
          /\ disk' = clear_token(disk, io_ok).disk
          /\ UNCHANGED call
          /\ last' = IF io_ok THEN "logout" ELSE "logout_io"
    /\ UNCHANGED <<view, tasks, server>>

\* the Logout button
RequestLogout ==
    /\ Click
    /\ ListShown
    /\ state' = [state EXCEPT !.pending_action = Some(Logout)]
    /\ UNCHANGED call
    /\ last' = ""
    /\ UNCHANGED <<view, tasks, server, disk>>

\* the dialog is rendered by the list view for the pending action
DialogShown == state.screen = "RepositoryList" /\ state.pending_action # None

\* render_confirmation_dialog: the backdrop's and the Cancel button's on_click
Cancel ==
    /\ Click
    /\ DialogShown
    /\ state' = [state EXCEPT !.pending_action = None]
    /\ UNCHANGED call
    /\ last' = ""
    /\ UNCHANGED <<view, tasks, server, disk>>

\* execute_action, PendingAction::UnstarSingle: do_unstar_repo
ConfirmUnstarSingle ==
    /\ Click
    /\ DialogShown
    /\ Unwrap(state.pending_action).kind = "UnstarSingle"
    /\ CanSpawn
    /\ state' = [state EXCEPT !.pending_action = None]
    /\ Spawn(Task("unstar_one", <<Unwrap(state.pending_action).id>>, "", state))
    /\ UNCHANGED call
    /\ last' = ""
    /\ UNCHANGED <<view, server, disk>>

\* execute_action, PendingAction::UnstarSelected: unstar_selected
ConfirmUnstarSelected ==
    /\ Click
    /\ DialogShown
    /\ Unwrap(state.pending_action).kind = "UnstarSelected"
    /\ state' = [state EXCEPT !.pending_action = None]
    /\ IF get_selected_ids(state) = <<>>
       THEN tasks' = tasks /\ UNCHANGED call /\ last' = ""
       ELSE /\ CanSpawn
            /\ Spawn(Task("unstar_selected", get_selected_ids(state), "", state))
            /\ UNCHANGED call
            /\ last' = ""
    /\ UNCHANGED <<view, server, disk>>

\* execute_action, PendingAction::Logout: RepositoryListView::logout
ConfirmLogout ==
    /\ Click
    /\ DialogShown
    /\ Unwrap(state.pending_action).kind = "Logout"
    /\ \E io_ok \in BOOLEAN :
          /\ state' = logout([state EXCEPT !.pending_action = None], io_ok)
          /\ disk' = clear_token(disk, io_ok).disk
          /\ UNCHANGED call
          /\ last' = IF io_ok THEN "logout" ELSE "logout_io"
    /\ UNCHANGED <<view, tasks, server>>

---------------------------------------------------------------------------
(* ui/repository_list.rs: the unstar tasks *)

\* do_unstar_repo: the first poll, up to the end of the DELETE
StartUnstarOne(t) ==
    /\ t \in InFlight /\ t.kind = "unstar_one" /\ t.pc = "spawned"
    /\ IF state.github_service = None
       THEN Finish(t) /\ server' = server /\ UNCHANGED call /\ last' = "unstar_one_no_service"
       ELSE \E response \in UnstarResponses :
              /\ Step(t, Returned(t, unstar_repo(t.ids[1], response)))
              /\ server' = RemoteUnstar(server, t.ids[1], response)
              /\ UNCHANGED call
              /\ last' = ""
    /\ UNCHANGED <<state, view, disk, clicks>>

\* do_unstar_repo with remove_repos run in the Err arm as well
CompleteUnstarOne_removes_always(t) ==
    /\ t \in InFlight /\ t.kind = "unstar_one" /\ t.pc = "returned"
    /\ IF t.res.ok
       THEN /\ state' = remove_repos(state, t.ids)
            /\ disk' = disk
            /\ UNCHANGED call
            /\ last' = "unstar_one_ok"
       ELSE \E io_ok \in BOOLEAN :
              /\ state' = handle_api_error(remove_repos(state, t.ids), t.res.err,
                                           "Failed to unstar", io_ok)
              /\ disk' = handle_api_error_disk(t.res.err, io_ok)
              /\ UNCHANGED call
              /\ last' = IF ~is_token_expired_error(t.res.err) THEN "unstar_one_err"
                         ELSE IF io_ok THEN "unstar_one_err_auth"
                         ELSE "unstar_one_err_auth_io"
    /\ Finish(t)
    /\ UNCHANGED <<view, server, clicks>>

\* do_unstar_repo: the closing cx.update of either match arm
CompleteUnstarOne(t) ==
    /\ t \in InFlight /\ t.kind = "unstar_one" /\ t.pc = "returned"
    /\ IF t.res.ok
       THEN /\ state' = remove_repos(state, t.ids)
            /\ disk' = disk
            /\ UNCHANGED call
            /\ last' = "unstar_one_ok"
       ELSE \E io_ok \in BOOLEAN :
              /\ state' = handle_api_error(state, t.res.err, "Failed to unstar", io_ok)
              /\ disk' = handle_api_error_disk(t.res.err, io_ok)
              /\ UNCHANGED call
              /\ last' = IF ~is_token_expired_error(t.res.err) THEN "unstar_one_err"
                         ELSE IF io_ok THEN "unstar_one_err_auth"
                         ELSE "unstar_one_err_auth_io"
    /\ Finish(t)
    /\ UNCHANGED <<view, server, clicks>>

\* results.insert(0, ..) in place of results.push(..)
unstar_repos_push_front(results, id, response) ==
    <<[owner |-> Owner(id), name |-> Name(id),
       ok |-> unstar_repo(id, response).ok,
       err |-> unstar_repo(id, response).err]>> \o results

\* GitHubService::unstar_repos: one turn of the loop
unstar_repos_push(results, id, response) ==
    Append(results, [owner |-> Owner(id), name |-> Name(id),
                     ok |-> unstar_repo(id, response).ok,
                     err |-> unstar_repo(id, response).err])

\* the task of unstar_selected after one more DELETE of unstar_repos has returned
UnstarCalled(t, response) ==
    LET k == Len(t.res.results) + 1
        results == unstar_repos_push(t.res.results, t.ids[k], response)
    IN  [t EXCEPT !.pc = IF k = Len(t.ids) THEN "returned" ELSE "calling",
                  !.res = [NoRes EXCEPT !.results = results]]

\* unstar_selected: the first poll, up to the end of the first DELETE
StartUnstarSelected(t) ==
    /\ t \in InFlight /\ t.kind = "unstar_selected" /\ t.pc = "spawned"
    /\ IF state.github_service = None
       THEN Finish(t) /\ server' = server /\ UNCHANGED call /\ last' = "unstar_selected_no_service"
       ELSE \E response \in UnstarResponses :
              /\ Step(t, UnstarCalled(t, response))
              /\ server' = RemoteUnstar(server, t.ids[1], response)
              /\ UNCHANGED call
              /\ last' = ""
    /\ UNCHANGED <<state, view, disk, clicks>>

\* unstar_repos: the next DELETE, issued when the one before it has returned
UnstarNext(t) ==
    /\ t \in InFlight /\ t.kind = "unstar_selected" /\ t.pc = "calling"
    /\ \E response \in UnstarResponses :
          /\ Step(t, UnstarCalled(t, response))
          /\ server' = RemoteUnstar(server, t.ids[Len(t.res.results) + 1], response)
    /\ UNCHANGED call
    /\ last' = ""
    /\ UNCHANGED <<state, view, disk, clicks>>

\* unstar_selected looking at the first result only
token_expired_first(results) ==
    results # <<>> /\ ~results[1].ok /\ is_token_expired_error(results[1].err)

\* unstar_selected: results.iter().any(.. is_token_expired_error ..)
token_expired(results) ==
    \E i \in 1..Len(results) : ~results[i].ok /\ is_token_expired_error(results[i].err)

\* unstar_selected with the filter on result.is_ok() left out
success_ids_unfiltered(results, ids) ==
    [j \in 1..Min(Len(results), Len(ids)) |-> ids[j]]

\* unstar_selected: results zipped with ids_to_remove, the Ok ones kept
success_ids(results, ids) ==
    LET idx == SelectSeq([i \in 1..Min(Len(results), Len(ids)) |-> i],
                         LAMBDA i : results[i].ok)
    IN  [j \in 1..Len(idx) |-> ids[idx[j]]]

\* unstar_selected: the closing cx.update
CompleteUnstarSelected(t) ==
    /\ t \in InFlight /\ t.kind = "unstar_selected" /\ t.pc = "returned"
    /\ IF token_expired(t.res.results)
       THEN \E io_ok \in BOOLEAN :
              /\ state' = [logout(state, io_ok) EXCEPT
                             !.error = Some(TokenExpiredMessage)]
              /\ disk' = clear_token(disk, io_ok).disk
              /\ UNCHANGED call
              /\ last' = IF io_ok THEN "unstar_selected_auth"
                         ELSE "unstar_selected_auth_io"
       ELSE /\ state' = remove_repos(state, success_ids(t.res.results, t.ids))
            /\ disk' = disk
            /\ UNCHANGED call
            /\ last' = IF \A i \in 1..Len(t.res.results) : t.res.results[i].ok
                       THEN "unstar_selected_done" ELSE "unstar_selected_failed"
    /\ Finish(t)
    /\ UNCHANGED <<view, server, clicks>>

---------------------------------------------------------------------------
(* The program *)

Next ==
    \/ RenderLoading
    \/ \E t \in InFlight : StartInit(t)
    \/ \E t \in InFlight : CompleteInit(t)
    \/ \E tok \in TokenValues : SubmitToken(tok)
    \/ \E t \in InFlight : StartSubmit(t)
    \/ \E t \in InFlight : CompleteSubmit(t)
    \/ \E id \in Repos : ToggleSelect(id)
    \/ ToggleSelectAll
    \/ \E i \in 1..Len(SortFields) : SortFieldClick(SortFields[i])
    \/ SortDirectionClick
    \/ \E t \in InFlight : StartReload(t)
    \/ \E t \in InFlight : CompleteReload(t)
    \/ LoadMoreClick
    \/ \E t \in InFlight : StartMore(t)
    \/ \E t \in InFlight : CompleteMore(t)
    \/ \E id \in Repos : RequestUnstarSingle(id)
    \/ RequestUnstarSelected
    \/ RequestLogout
    \/ Cancel
    \/ ConfirmUnstarSingle
    \/ ConfirmUnstarSelected
    \/ ConfirmLogout
    \/ \E t \in InFlight : StartUnstarOne(t)
    \/ \E t \in InFlight : CompleteUnstarOne(t)
    \/ \E t \in InFlight : StartUnstarSelected(t)
    \/ \E t \in InFlight : UnstarNext(t)
    \/ \E t \in InFlight : CompleteUnstarSelected(t)

Spec == Init /\ [][Next]_vars

---------------------------------------------------------------------------
(* SpecLive: the program under its scheduling. The executor polls every
   spawned task and runs every closing update once the remote call has
   returned, and the window is rendered after every update; user intents
   are under no obligation. *)

\* a step of a spawned task
TaskStep ==
    \E t \in InFlight :
       \/ StartInit(t) \/ CompleteInit(t)
       \/ StartSubmit(t) \/ CompleteSubmit(t)
       \/ StartReload(t) \/ CompleteReload(t)
       \/ StartMore(t) \/ CompleteMore(t)
       \/ StartUnstarOne(t) \/ CompleteUnstarOne(t)
       \/ StartUnstarSelected(t) \/ UnstarNext(t) \/ CompleteUnstarSelected(t)

SpecLive == Init /\ [][Next]_vars /\ WF_vars(TaskStep) /\ WF_vars(RenderLoading)

---------------------------------------------------------------------------
(* Inputs of the properties below *)

\* longest id slice tried on remove_repos
MaxIds == 2

\* the id slices tried on remove_repos: every sequence of at most MaxIds ids
IdLists == UNION {[1..n -> Repos] : n \in 0..MaxIds}

\* the context labels of the callers of handle_api_error, and one more
Contexts == {"Failed to reload", "Failed to load more", "Failed to unstar", "Other"}

FetchErrorText == "Failed to fetch starred repos"

\* the errors the remote client hands to the tasks
ApiErrors ==
    {unstar_repo(id, r).err : id \in Repos, r \in {Status(401), Status(404), ConnectionFailed}}
    \cup {OctocrabError(o, FetchErrorText) : o \in RemoteOutcomes \ {"ok"}}

\* the session is cleared and the Setup screen is shown
LoggedOut(st) ==
    /\ st.github_service = None
    /\ st.username = None
    /\ st.repositories = <<>>
    /\ st.selection = {}
    /\ st.screen = "Setup"

\* the steps in which handle_api_error met an authentication expiry
ApiAuthTags ==
    {"reload_err_auth", "reload_err_auth_io", "more_err_auth", "more_err_auth_io",
     "unstar_one_err_auth", "unstar_one_err_auth_io"}

\* the steps in which handle_api_error met another error
ApiErrTags == {"reload_err", "more_err", "unstar_one_err"}

\* the steps in which unstar_selected met an authentication expiry
BulkAuthTags == {"unstar_selected_auth", "unstar_selected_auth_io"}

\* the steps that ran AppState::logout, and those whose clear_token failed
LogoutTags == {"logout", "logout_io"} \cup ApiAuthTags \cup BulkAuthTags
IoFailedLogoutTags ==
    {"logout_io", "reload_err_auth_io", "more_err_auth_io", "unstar_one_err_auth_io",
     "unstar_selected_auth_io"}

---------------------------------------------------------------------------
(* The methods of AppState called on bounded inputs *)

\* the lists of repositories with distinct ids, in the order fetched
RepoLists ==
    {[i \in 1..Len(ids) |-> Repository(ids[i], U32(i - 1))] :
        ids \in {s \in UNION {[1..n -> Repos] : n \in 0..NumRepos} :
                    \A i, j \in 1..Len(s) : i # j => s[i] # s[j]}}

\* the error field of a session: no error, or the message of an earlier one
SessionErrors == {None, Some("Failed to load more: " \o FetchErrorText)}

\* a logged-in session on the list screen: any list, selection and error
InitFn ==
    /\ \E repos \in RepoLists, sel \in SUBSET Repos, e \in SessionErrors :
          state = [from_config(Some("tok")) EXCEPT
                      !.screen = "RepositoryList",
                      !.github_service = Some(GitHubService("tok")),
                      !.username = Some(UserName),
                      !.repositories = repos,
                      !.selection = sel,
                      !.error = e]
    /\ view = [error |-> None, validating |-> FALSE]
    /\ tasks = EmptyBag
    /\ server = Repos
    /\ disk = Some("tok")
    /\ last = "new"
    /\ clicks = 0
    /\ call = NoCall

\* state.remove_repos(ids)
CallRemoveRepos(ids) ==
    /\ call = NoCall
    /\ state' = remove_repos(state, ids)
    /\ call' = [NoCall EXCEPT !.fn = "remove_repos", !.before = state,
                              !.disk = disk, !.ids = ids]
    /\ UNCHANGED <<view, tasks, server, disk, last, clicks>>

\* state.handle_api_error(err, context); io_ok: whether the config file
\* can be written
CallHandleApiError(err, context, io_ok) ==
    /\ call = NoCall
    /\ state' = handle_api_error(state, err, context, io_ok)
    /\ disk' = handle_api_error_disk(err, io_ok)
    /\ call' = [NoCall EXCEPT !.fn = "handle_api_error", !.before = state,
                              !.disk = disk, !.err = err,
                              !.context = context, !.io_ok = io_ok]
    /\ UNCHANGED <<view, tasks, server, last, clicks>>

NextFn ==
    \/ \E ids \in IdLists : CallRemoveRepos(ids)
    \/ \E err \in ApiErrors, context \in Contexts, io_ok \in BOOLEAN :
          CallHandleApiError(err, context, io_ok)

SpecFn == InitFn /\ [][NextFn]_vars

---------------------------------------------------------------------------
(* SpecSort: the state updates of the sort controls, applied up to MaxSorts
   times in a row to a list screen under any sort configuration *)

MaxSorts == 2

InitSort ==
    /\ \E f \in SeqToSet(SortFields), d \in {"Asc", "Desc"},
          loading \in BOOLEAN, loading_more \in BOOLEAN :
          state = [from_config(Some("tok")) EXCEPT
                      !.screen = "RepositoryList",
                      !.github_service = Some(GitHubService("tok")),
                      !.username = Some(UserName),
                      !.sort_field = f,
                      !.sort_direction = d,
                      !.loading = loading,
                      !.loading_more = loading_more]
    /\ view = [error |-> None, validating |-> FALSE]
    /\ tasks = EmptyBag
    /\ server = Repos
    /\ disk = Some("tok")
    /\ last = "new"
    /\ clicks = 0
    /\ call = NoCall

\* a sort field button clicked: its update_global closure
CallSortFieldClick(field) ==
    /\ clicks < MaxSorts
    /\ clicks' = clicks + 1
    /\ state' = sort_field_click(state, field)
    /\ call' = [NoCall EXCEPT !.fn = "sort_field_click", !.before = state,
                              !.disk = disk, !.field = field]
    /\ last' = call.fn
    /\ UNCHANGED <<view, tasks, server, disk>>

\* the direction indicator clicked: its update_global closure
CallSortDirectionClick ==
    /\ clicks < MaxSorts
    /\ clicks' = clicks + 1
    /\ state' = sort_direction_click(state)
    /\ call' = [NoCall EXCEPT !.fn = "sort_direction_click", !.before = state,
                              !.disk = disk]
    /\ last' = call.fn
    /\ UNCHANGED <<view, tasks, server, disk>>

NextSort ==
    \/ \E field \in SeqToSet(SortFields) : CallSortFieldClick(field)
    \/ CallSortDirectionClick

SpecSort == InitSort /\ [][NextSort]_vars

---------------------------------------------------------------------------
(* SpecSelect: the selection controls and the unstar of one row, on a list
   screen showing any account of up to NumRepos stars loaded in one page *)

\* the list screen after a load that fetched the whole account
InitSelect ==
    /\ \E repos \in RepoLists :
          /\ state = [from_config(Some("tok")) EXCEPT
                         !.screen = "RepositoryList",
                         !.github_service = Some(GitHubService("tok")),
                         !.username = Some(UserName),
                         !.repositories = repos,
                         !.has_more = FALSE]
          /\ server = SeqToSet(RepoIds(repos))
    /\ view = [error |-> None, validating |-> FALSE]
    /\ tasks = EmptyBag
    /\ disk = Some("tok")
    /\ last = "new"
    /\ clicks = 0
    /\ call = NoCall

\* the Select All checkbox's on_click, recorded
CallToggleSelectAll ==
    /\ Click
    /\ ListShown
    /\ state' = toggle_select_all(state)
    /\ call' = [NoCall EXCEPT !.fn = "toggle_select_all", !.before = state,
                              !.disk = disk]
    /\ last' = "toggle_select_all"
    /\ UNCHANGED <<view, tasks, server, disk>>

NextSelect ==
    \/ CallToggleSelectAll
    \/ \E id \in Repos : ToggleSelect(id)
    \/ \E id \in Repos : RequestUnstarSingle(id)
    \/ Cancel
    \/ ConfirmUnstarSingle
    \/ \E t \in InFlight : StartUnstarOne(t)
    \/ \E t \in InFlight : CompleteUnstarOne(t)

SpecSelect == InitSelect /\ [][NextSelect]_vars

---------------------------------------------------------------------------
(* SpecBulk: the bulk unstar and its confirmation on a list screen showing
   any account of up to NumRepos stars with any rows selected, while the
   unstar of one row, confirmed before, is in flight *)

\* the list screen after rows were selected and the unstar of one row was
\* requested and confirmed
InitBulk ==
    /\ \E repos \in RepoLists, sel \in SUBSET Repos, id \in Repos :
          /\ sel \subseteq SeqToSet(RepoIds(repos))
          /\ id \in SeqToSet(RepoIds(repos))
          /\ state = [from_config(Some("tok")) EXCEPT
                         !.screen = "RepositoryList",
                         !.github_service = Some(GitHubService("tok")),
                         !.username = Some(UserName),
                         !.repositories = repos,
                         !.selection = sel,
                         !.has_more = FALSE]
          /\ tasks = SetToBag({Task("unstar_one", <<id>>, "", state)})
          /\ server = SeqToSet(RepoIds(repos))
    /\ view = [error |-> None, validating |-> FALSE]
    /\ disk = Some("tok")
    /\ last = "new"
    /\ clicks = 0
    /\ call = NoCall

NextBulk ==
    \/ RequestUnstarSelected
    \/ Cancel
    \/ ConfirmUnstarSelected
    \/ \E t \in InFlight : StartUnstarOne(t)
    \/ \E t \in InFlight : CompleteUnstarOne(t)
    \/ \E t \in InFlight : StartUnstarSelected(t)
    \/ \E t \in InFlight : UnstarNext(t)
    \/ \E t \in InFlight : CompleteUnstarSelected(t)

SpecBulk == InitBulk /\ [][NextBulk]_vars

---------------------------------------------------------------------------
(* SpecClient: the client's page fetch called once, on any account of up to
   NumRepos stars *)

\* the page size every caller passes
ApiPerPage == 100

MaxPage == 3

\* the first page number that is 1 modulo 2^8 and whose base order at
\* ApiPerPage items per page is beyond u32
BigPage == 167773 * 256 + 1

Pages == (0..MaxPage) \cup {256 + 1, BigPage}
PerPages == {PerPage, ApiPerPage}

InitClient ==
    /\ state = [from_config(Some("tok")) EXCEPT
                  !.screen = "RepositoryList",
                  !.github_service = Some(GitHubService("tok")),
                  !.username = Some(UserName)]
    /\ view = [error |-> None, validating |-> FALSE]
    /\ tasks = EmptyBag
    /\ server \in SUBSET Repos
    /\ disk = Some("tok")
    /\ last = "new"
    /\ clicks = 0
    /\ call = NoCall

\* service.fetch_starred_repos_page(page, per_page, sort, direction).await
CallFetchPage(page, per_page, sort, direction, outcome, checked) ==
    /\ call = NoCall
    /\ call' = [NoCall EXCEPT
                  !.fn = "fetch_starred_repos_page", !.before = state,
                  !.disk = disk, !.page = page, !.per_page = per_page,
                  !.request = starred_request(page, per_page, sort, direction),
                  !.res = fetch_starred_repos_page(server, page, per_page,
                              sort, direction, outcome, checked)]
    /\ UNCHANGED <<state, view, tasks, server, disk, last, clicks>>

\* what DELETE /user/starred/{owner}/{repo} can come back with: a status of
\* each class, or no response
DeleteResponses ==
    {Status(c) : c \in {200, 202, 204, 304, 401, 403, 404, 500}}
        \cup {ConnectionFailed}

\* service.unstar_repo(owner, repo).await
CallUnstarRepo(id, response) ==
    /\ call = NoCall
    /\ call' = [NoCall EXCEPT
                  !.fn = "unstar_repo", !.before = state, !.disk = disk,
                  !.ids = <<id>>, !.response = response,
                  !.res = unstar_repo(id, response)]
    /\ server' = RemoteUnstar(server, id, response)
    /\ UNCHANGED <<state, view, tasks, disk, last, clicks>>

NextClient ==
    \/ \E page \in Pages, per_page \in PerPages, f \in SeqToSet(SortFields),
          d \in {"Asc", "Desc"}, outcome \in RemoteOutcomes, checked \in BOOLEAN :
          CallFetchPage(page, per_page, field_api_value(f),
                        direction_api_value(d), outcome, checked)
    \/ \E id \in Repos, response \in DeleteResponses : CallUnstarRepo(id, response)

SpecClient == InitClient /\ [][NextClient]_vars

---------------------------------------------------------------------------
(* SpecAll: GitHubService::fetch_starred_repos, one step per turn of its
   loop, on any account of up to NumRepos stars. The page size (100 in the
   source) and the page limit (500 in the source) are scaled down so that
   the accounts reach them. *)

\* the page limit of the loop, scaled
PageLimit == 1

\* the page sizes the loop is run with, scaled
AllPerPages == 1..NumRepos

\* the loop's exit test on the page number, never true
page_limit_reached_never(page) == FALSE

\* the loop's exit test on the page number: page > 500
page_limit_reached(page) == page > PageLimit

\* the account, the client's session, no call made
InitAll ==
    /\ state = [from_config(Some("tok")) EXCEPT
                  !.screen = "RepositoryList",
                  !.github_service = Some(GitHubService("tok")),
                  !.username = Some(UserName)]
    /\ view = [error |-> None, validating |-> FALSE]
    /\ tasks = EmptyBag
    /\ server \in SUBSET Repos
    /\ disk = Some("tok")
    /\ last = "new"
    /\ clicks = 0
    /\ call = NoCall

\* service.fetch_starred_repos() up to the loop: all_repos = Vec::new(),
\* page = 1 (call.res.repos holds all_repos, call.page holds page)
CallFetchAll(per_page) ==
    /\ call = NoCall
    /\ call' = [NoCall EXCEPT !.fn = "fetch_starred_repos", !.before = state,
                              !.disk = disk, !.page = 1, !.per_page = per_page,
                              !.res = OkRes]
    /\ last' = "all_called"
    /\ UNCHANGED <<state, view, tasks, server, disk, clicks>>

\* the loop is at its head
AllRunning ==
    call.fn = "fetch_starred_repos" /\ last \in {"all_called", "all_next"}

\* one turn of the loop: the page fetch with its `?`, the test for an empty
\* page, the extend, the exit test, page += 1
FetchAllPage(outcome, checked) ==
    /\ AllRunning
    /\ LET f == fetch_starred_repos_page(server, call.page, call.per_page,
                    "created", "desc", outcome, checked)
           all_repos == call.res.repos \o f.repos
       IN  IF ~f.ok
           THEN /\ call' = [call EXCEPT !.res = ErrRes(f.err)]
                /\ last' = "all_err"
           ELSE IF f.repos = <<>>
           THEN /\ call' = call
                /\ last' = "all_empty"
           ELSE IF ~f.has_more
           THEN /\ call' = [call EXCEPT !.res.repos = all_repos]
                /\ last' = "all_short"
           ELSE IF page_limit_reached(call.page)
           THEN /\ call' = [call EXCEPT !.res.repos = all_repos]
                /\ last' = "all_limit"
           ELSE /\ call' = [call EXCEPT !.res.repos = all_repos,
                                        !.page = call.page + 1]
                /\ last' = "all_next"
    /\ UNCHANGED <<state, view, tasks, server, disk, clicks>>

NextAll ==
    \/ \E per_page \in AllPerPages : CallFetchAll(per_page)
    \/ \E outcome \in RemoteOutcomes, checked \in BOOLEAN :
          FetchAllPage(outcome, checked)

\* every page fetch returns
SpecAll ==
    /\ InitAll /\ [][NextAll]_vars
    /\ WF_vars(\E outcome \in RemoteOutcomes, checked \in BOOLEAN :
                  FetchAllPage(outcome, checked))

---------------------------------------------------------------------------
(* Claims *)

\* C1: in every reachable state the selected ids are a subset of the ids of
\* the repositories in the list.
C1_SelectionWithinList ==
    state.selection \subseteq SeqToSet(RepoIds(state.repositories))

\* the positions of `repos` whose id is not in `ids`
KeptPositions(repos, ids) == {i \in 1..Len(repos) : repos[i].id \notin SeqToSet(ids)}

\* what one remove_repos(ids) step leaves: no listed repository and no
\* selected id of `ids`, every other repository in its previous relative
\* order, every other selected id, and no other field changed.
Removed(old, new, ids) ==
    LET kept == KeptPositions(old.repositories, ids)
    IN  /\ \A i \in 1..Len(new.repositories) : new.repositories[i].id \notin SeqToSet(ids)
        /\ new.selection \cap SeqToSet(ids) = {}
        /\ Len(new.repositories) = Cardinality(kept)
        /\ \A k \in 1..Len(new.repositories) :
              new.repositories[k] =
                old.repositories[CHOOSE i \in kept :
                                    Cardinality({j \in kept : j <= i}) = k]
        /\ \A id \in old.selection : id \notin SeqToSet(ids) => id \in new.selection
        /\ new.selection \subseteq old.selection
        /\ new = [old EXCEPT !.repositories = new.repositories,
                             !.selection = new.selection]

\* C2: a remove_repos(ids) call is one step, after which no repository and
\* no selected id of `ids` is left, and every other repository (in its
\* previous relative order) and every other selected id is kept.
C2_RemoveReposRemovesExactly ==
    call.fn = "remove_repos" => Removed(call.before, state, call.ids)

\* C2 witness: remove_repos has removed a listed and selected repository and
\* left another repository and another selected id behind.
C2_Witness ==
    /\ call.fn = "remove_repos"
    /\ \E i \in 1..Len(call.before.repositories) :
          /\ call.before.repositories[i].id \in SeqToSet(call.ids)
          /\ call.before.repositories[i].id \in call.before.selection
    /\ state.repositories # <<>>
    /\ state.selection # {}

\* C3: remove_repos is idempotent: with the empty slice it changes nothing,
\* and applied again with the same ids it changes nothing more.
C3_RemoveReposIdempotent ==
    call.fn = "remove_repos" =>
       /\ call.ids = <<>> => state = call.before
       /\ remove_repos(state, call.ids) = state
       /\ remove_repos(remove_repos(call.before, call.ids), call.ids)
             = remove_repos(call.before, call.ids)

\* C3 witness: remove_repos has removed a listed and selected repository, so
\* that a second application finds the ids neither listed nor selected.
C3_Witness ==
    /\ call.fn = "remove_repos"
    /\ Len(state.repositories) < Len(call.before.repositories)
    /\ state.selection # call.before.selection

\* C4: handle_api_error with an authentication expiry logs out and sets the
\* fixed message, whatever the context label.
C4_ExpiryForcesLogout ==
    (call.fn = "handle_api_error" /\ is_token_expired_error(call.err)) =>
       /\ LoggedOut(state)
       /\ state.error = Some("Token expired. Please login again.")

\* C4 witness: handle_api_error has met an expiry, with a context label, on
\* a session holding a list, a selection and an earlier error.
C4_Witness ==
    /\ call.fn = "handle_api_error"
    /\ is_token_expired_error(call.err)
    /\ call.context = "Failed to unstar"
    /\ call.before.repositories # <<>>
    /\ call.before.selection # {}
    /\ call.before.error # None

\* C5: handle_api_error with any other error sets error to
\* "{context}: {error}" and changes no other field, nor the config file.
C5_OtherErrorOnlySetsError ==
    (call.fn = "handle_api_error" /\ ~is_token_expired_error(call.err)) =>
       /\ state = [call.before EXCEPT
                      !.error = Some(call.context \o ": " \o call.err.text)]
       /\ disk = call.disk

\* C5 witness: handle_api_error has met a 404 of an unstar on a session
\* holding a list and a selection.
C5_Witness ==
    /\ call.fn = "handle_api_error"
    /\ call.err = unstar_repo(1, Status(404)).err
    /\ call.context = "Failed to unstar"
    /\ state.error = Some("Failed to unstar: Failed to unstar o1/r1: HTTP 404")
    /\ state.repositories # <<>>
    /\ state.selection # {}

\* C6: whichever operation detects an authentication expiry, the state after
\* it is the forced-logout recovery with the fixed message.
C6_ExpiryRecoveryEverywhere ==
    last \in ApiAuthTags \cup BulkAuthTags \cup {"init_err_auth"} =>
       LoggedOut(state) /\ state.error = Some(TokenExpiredMessage)

\* a task whose remote call failed with something else than an expiry
FailedWithoutExpiry(t) ==
    IF t.kind = "unstar_selected"
    THEN /\ ~token_expired(t.res.results)
         /\ \A i \in 1..Len(t.res.results) : ~t.res.results[i].ok
    ELSE ~t.res.ok /\ ~is_token_expired_error(t.res.err)

\* C7: the completion of a reload, load-more, unstar-one or unstar-selected
\* that failed without expiry leaves list, selection, current_page and
\* has_more as they were when the operation was started.
C7_FailureKeepsPagination ==
    [][\A t \in InFlight :
          (/\ t.kind \in {"reload", "more", "unstar_one", "unstar_selected"}
           /\ t.pc = "returned"
           /\ FailedWithoutExpiry(t)
           /\ tasks' = tasks (-) SetToBag({t})
           /\ last' \in ApiErrTags \cup {"unstar_selected_failed"})
          => Pre(state') = t.pre]_vars

\* C8: the completion step of a task whose remote call failed leaves the
\* error field set.
C8_FailureSetsError ==
    last \in ApiAuthTags \cup ApiErrTags \cup BulkAuthTags
             \cup {"init_err", "init_err_auth", "unstar_selected_failed"}
       => state.error # None

\* C9: after logout(), Ok or Err, the session is cleared, the Setup screen is
\* shown and the in-memory credential is absent.
C9_LogoutClearsMemory ==
    last \in LogoutTags => LoggedOut(state) /\ state.token = None

\* C10: a logout whose credential-store clear failed leaves the I/O failure
\* in the error field and the Setup screen shown.
C10_ClearFailureSurfaced ==
    last \in IoFailedLogoutTags =>
       /\ state.screen = "Setup"
       /\ state.error \in {Some(IoError)}
                          \cup {Some(context \o ": " \o IoError) : context \in Contexts}
                          \cup {Some("Failed to clear token: " \o IoError)}

\* C11: every change of the screen is Setup to Loading (a submitted
\* credential validated), Loading to RepositoryList (the page-1 fetch
\* succeeded), RepositoryList to Setup (a logout), or Loading to Setup (a
\* validation or a fetch failed, the error field set).
C11_ScreenTransitions ==
    [][state'.screen # state.screen =>
          \/ /\ state.screen = "Setup" /\ state'.screen = "Loading"
             /\ last' = "submit_ok"
          \/ /\ state.screen = "Loading" /\ state'.screen = "RepositoryList"
             /\ last' = "init_ok"
          \/ /\ state.screen = "RepositoryList" /\ state'.screen = "Setup"
             /\ last' \in LogoutTags
          \/ /\ state.screen = "Loading" /\ state'.screen = "Setup"
             /\ last' \in {"init_no_token", "init_err", "init_err_auth"}
                          \cup ApiAuthTags \cup BulkAuthTags
             /\ state'.error # None]_vars

\* C12: a reload requested (by a sort click, the callers of reload_repos)
\* while loading or loading_more is set launches no task and leaves the
\* list, the selection, current_page, has_more and both flags as they were.
C12_ReloadGuard ==
    [][(/\ \/ state'.sort_field # state.sort_field
           \/ state'.sort_direction # state.sort_direction
        /\ state.loading \/ state.loading_more)
       => /\ last' = "reload_skipped"
          /\ tasks' = tasks
          /\ Pre(state') = Pre(state)
          /\ state'.loading = state.loading
          /\ state'.loading_more = state.loading_more]_vars

\* C12 witness: a reload was refused while a load-more was in flight on a
\* loaded list.
C12_Witness ==
    /\ last = "reload_skipped"
    /\ state.loading_more
    /\ state.repositories # <<>>
    /\ \E t \in InFlight : t.kind = "more"

\* the page-fetch tasks in flight: reloads and load-mores
PageFetches == {t \in InFlight : t.kind \in {"reload", "more"}}

\* C13: at any time at most one page-fetch task (reload or load-more) is in
\* flight.
C13_OnePageFetch ==
    \A t \in PageFetches :
       /\ CopiesIn(t, tasks) = 1
       /\ \A u \in PageFetches : u = t

\* the tasks a step adds to the bag, or moves to a new position
Added == {u \in BagToSet(tasks') : CopiesIn(u, tasks') > CopiesIn(u, tasks)}

\* C14: load-more does nothing while loading_more is set or has_more is
\* false; otherwise it sets loading_more and fetches page current_page + 1,
\* and its success appends the fetched items, in the order the remote gave
\* them, behind the unchanged list, sets current_page to the fetched page,
\* takes over has_more and clears loading_more.
C14_LoadMoreContract ==
    [][/\ (state.loading_more \/ ~state.has_more)
          => \A u \in Added : ~(u.kind = "more" /\ u.pc = "spawned")
       /\ \A u \in Added :
             /\ (u.kind = "more" /\ u.pc = "spawned")
                => state' = [state EXCEPT !.loading_more = TRUE]
             /\ (u.kind = "more" /\ u.pc = "returned")
                => /\ u.res.page = state.current_page + 1
                   /\ u.res.ok =>
                         [i \in 1..Len(u.res.repos) |-> u.res.repos[i].id]
                           = RemotePage(server,
                                 field_api_value(state.sort_field),
                                 direction_api_value(state.sort_direction),
                                 PerPage, state.current_page + 1)
       /\ last' = "more_ok"
          => \E t \in InFlight :
                /\ t.kind = "more" /\ t.pc = "returned" /\ t.res.ok
                /\ tasks' = tasks (-) SetToBag({t})
                /\ state' = [state EXCEPT
                               !.repositories = state.repositories \o t.res.repos,
                               !.current_page = t.res.page,
                               !.has_more = t.res.has_more,
                               !.loading_more = FALSE]]_vars

\* a second page has been appended behind a full first page
C14_Witness ==
    /\ last = "more_ok"
    /\ state.current_page = 2
    /\ Len(state.repositories) > PerPage
    /\ ~state.loading_more

\* the page a returned fetch carries: load_more its next_page, the others 1
AppliedPage(t) == IF t.kind = "more" THEN t.res.page ELSE 1

\* C15: page results are applied in increasing page order: a step that
\* applies the successful result of page k finds no later page applied
\* since the list was last emptied (the list is empty, or current_page is
\* at most k).
C15_PagesInOrder ==
    [][\A t \in InFlight :
          (/\ t.kind \in {"init", "reload", "more"}
           /\ tasks' = tasks (-) SetToBag({t})
           /\ last' \in {"init_ok", "reload_ok", "more_ok"})
          => \/ state.repositories = <<>>
             \/ state.current_page <= AppliedPage(t)]_vars

\* a successful load-more completes in this step and sets current_page to
\* the page it fetched
MoreApplied ==
    /\ last' = "more_ok"
    /\ \E t \in InFlight :
          /\ t.kind = "more" /\ t.pc = "returned" /\ t.res.ok
          /\ tasks' = tasks (-) SetToBag({t})
          /\ state'.current_page = t.res.page

\* C16 as stated: no step lowers current_page, and only the success of a
\* load-more raises it.
C16_CurrentPageOnlyIncreases ==
    [][/\ state'.current_page >= state.current_page
       /\ state'.current_page > state.current_page => MoreApplied]_vars

\* C16 amended: current_page changes in two ways only. A reload, when it
\* starts and when it succeeds, and a successful initial load set it to 1;
\* a successful load-more raises it to the page it fetched. A failed or
\* skipped load leaves it alone.
C16_CurrentPageSteps ==
    [][state'.current_page # state.current_page
       => \/ /\ state'.current_page = 1
             /\ \/ last' \in {"init_ok", "reload_ok"}
                \/ \E u \in Added : u.kind = "reload" /\ u.pc = "spawned"
          \/ /\ state'.current_page > state.current_page
             /\ MoreApplied]_vars

\* a load-more has raised current_page to 2 and found the last page
C16_Witness ==
    /\ last = "more_ok"
    /\ state.current_page = 2
    /\ ~state.has_more
    /\ state.error = None

\* the ids of page `page` as the remote serves it under the session's sort
ServerPage(page) ==
    RemotePage(server, field_api_value(state.sort_field),
               direction_api_value(state.sort_direction), PerPage, page)

\* C17: a page fetch reports has_more exactly when it returned as many
\* items as the page size; so when the list holds one full page and a
\* load-more returns a shorter, non-empty page, has_more becomes false and
\* the list is the first page followed by the second.
C17_HasMoreIffFullPage ==
    [][/\ \A u \in Added :
             (u.kind \in {"init", "reload", "more"} /\ u.pc = "returned" /\ u.res.ok)
             => (u.res.has_more <=> Len(u.res.repos) = PerPage)
       /\ \A t \in InFlight :
             (/\ t.kind = "more" /\ t.pc = "returned" /\ t.res.ok
              /\ tasks' = tasks (-) SetToBag({t})
              /\ state.current_page = 1 /\ state.has_more
              /\ Len(state.repositories) = PerPage
              /\ Len(t.res.repos) \in 1..(PerPage - 1))
             => /\ ~state'.has_more
                /\ Len(state'.repositories) = PerPage + Len(t.res.repos)
                /\ state'.repositories = state.repositories \o t.res.repos]_vars

\* a full first page followed by the shorter second page, has_more false
C17_Witness ==
    /\ last = "more_ok"
    /\ ~state.has_more
    /\ Len(state.repositories) \in (PerPage + 1)..(2 * PerPage - 1)
    /\ RepoIds(state.repositories) = ServerPage(1) \o ServerPage(2)
    /\ Len(ServerPage(1)) = PerPage

\* C18: a load-more that returns no items leaves the list and the error
\* field as they are and sets has_more to false; while has_more is false no
\* load-more is launched, and has_more becomes true again only by a reload
\* or by a load of the first page.
C18_EmptyPageTolerated ==
    [][/\ \A t \in InFlight :
             (/\ t.kind = "more" /\ t.pc = "returned" /\ t.res.ok
              /\ t.res.repos = <<>>
              /\ tasks' = tasks (-) SetToBag({t}))
             => /\ state'.repositories = state.repositories
                /\ state'.error = state.error
                /\ ~state'.has_more
                /\ ~state'.loading_more
       /\ ~state.has_more
          => \A u \in Added : ~(u.kind = "more" /\ u.pc = "spawned")
       /\ (~state.has_more /\ state'.has_more)
          => \/ \E u \in Added : u.kind = "reload" /\ u.pc = "spawned"
             \/ last' \in {"init_ok", "reload_ok"}]_vars

\* the page after the last one was fetched and came back empty
C18_Witness ==
    /\ last = "more_ok"
    /\ state.current_page = 2
    /\ ServerPage(2) = <<>>
    /\ state.repositories # <<>>
    /\ state.error = None
    /\ ~state.has_more

\* (p - 1) * n + i in three limbs, so that no digit is lost
ExactOrder(p, n, i) ==
    LET lo == ((p - 1) % Limb) * n + i
        hi == ((p - 1) \div Limb) * n + lo \div Limb
    IN  [top |-> hi \div Limb, hi |-> hi % Limb, lo |-> lo % Limb]

\* C19: every item that fetch_starred_repos_page(p, n) returns at in-page
\* index i carries starred_order = (p - 1) * n + i, for every page p >= 1.
C19_StarredOrder ==
    (call.fn = "fetch_starred_repos_page" /\ call.page >= 1 /\ call.res.ok)
    => \A k \in 1..Len(call.res.repos) :
          LET exact == ExactOrder(call.page, call.per_page, k - 1)
          IN  /\ exact.top = 0
              /\ call.res.repos[k].starred_order
                    = [hi |-> exact.hi, lo |-> exact.lo]

\* the bulk unstar tasks: t.ids is the input of unstar_repos, t.res.results
\* the vector it has built so far
BulkUnstars == {t \in InFlight : t.kind = "unstar_selected"}

\* C20: unstar_repos calls one pair at a time in input order, each step
\* adding the result of the next pair behind the results it has, and ends
\* with exactly one result per pair, the k-th carrying the k-th pair's owner
\* and name, whatever the earlier calls returned.
C20_UnstarManyInOrder ==
    [][/\ \A t \in BulkUnstars :
             /\ Len(t.res.results) <= Len(t.ids)
             /\ \A k \in 1..Len(t.res.results) :
                   /\ t.res.results[k].owner = Owner(t.ids[k])
                   /\ t.res.results[k].name = Name(t.ids[k])
             /\ t.pc = "returned" <=> Len(t.res.results) = Len(t.ids)
       /\ \A u \in Added :
             (u.kind = "unstar_selected" /\ u.pc # "spawned")
             => \E t \in BulkUnstars :
                   LET k == Len(t.res.results) + 1
                   IN  /\ t.pc # "returned"
                       /\ tasks' = (tasks (-) SetToBag({t})) (+) SetToBag({u})
                       /\ u.ids = t.ids
                       /\ Len(u.res.results) = k
                       /\ SubSeq(u.res.results, 1, k - 1) = t.res.results
                       /\ u.res.results[k].owner = Owner(t.ids[k])
                       /\ server \ server' \subseteq {t.ids[k]}
                       /\ server' \subseteq server]_vars

\* a bulk unstar of two pairs has returned: the first call failed, and the
\* second pair was called all the same and succeeded
C20_Witness ==
    \E t \in BulkUnstars :
       /\ t.pc = "returned"
       /\ Len(t.ids) = 2
       /\ Len(t.res.results) = 2
       /\ ~t.res.results[1].ok
       /\ t.res.results[2].ok
       /\ t.res.results[2].owner = Owner(t.ids[2])

\* C21: unstar_repo succeeds on every 2xx status, fails with the
\* authentication-expiry error on 401, with an error carrying the status on
\* every other status, and with a transport error when no response came.
C21_UnstarResultClasses ==
    call.fn = "unstar_repo"
    => LET r == call.response
           success == r.tag = "Ok" /\ r.status \div 100 = 2
       IN  /\ success => call.res.ok
           /\ (r.tag = "Ok" /\ r.status = 401)
              => ~call.res.ok /\ is_token_expired_error(call.res.err)
           /\ (r.tag = "Ok" /\ ~success /\ r.status # 401)
              => /\ ~call.res.ok
                 /\ ~is_token_expired_error(call.res.err)
                 /\ call.res.err.status = r.status
           /\ r.tag = "Err"
              => /\ ~call.res.ok
                 /\ ~is_token_expired_error(call.res.err)
                 /\ call.res.err.status = 0

\* the bulk unstar whose closing update this step runs
BulkCompleted(t) ==
    /\ t \in BulkUnstars
    /\ t.pc = "returned"
    /\ tasks' = tasks (-) SetToBag({t})

\* some result of the batch is an authentication expiry
AnyExpired(t) ==
    \E k \in 1..Len(t.res.results) :
       ~t.res.results[k].ok /\ is_token_expired_error(t.res.results[k].err)

\* the ids of the pairs whose own result is Ok
Succeeded(t) == {t.ids[k] : k \in {i \in 1..Len(t.ids) : t.res.results[i].ok}}
Failed(t) == {t.ids[k] : k \in {i \in 1..Len(t.ids) : ~t.res.results[i].ok}}

\* C22: when a bulk unstar ends without an authentication-expiry result, its
\* closing update removes from the list and from the selection exactly the
\* repositories whose own result was success; a repository whose unstar
\* failed keeps its place in the list and its selection.
C22_BulkRemovesSuccesses ==
    [][\A t \in BulkUnstars :
          (BulkCompleted(t) /\ ~AnyExpired(t))
          => /\ state'.repositories =
                   SelectSeq(state.repositories, LAMBDA r : r.id \notin Succeeded(t))
             /\ state'.selection = state.selection \ Succeeded(t)
             /\ \A id \in Failed(t) :
                   /\ id \in SeqToSet(RepoIds(state.repositories))
                      => id \in SeqToSet(RepoIds(state'.repositories))
                   /\ id \in state.selection => id \in state'.selection
             /\ state' = [state EXCEPT !.repositories = state'.repositories,
                                       !.selection = state'.selection]]_vars

\* a bulk unstar of two ended: one repository is gone, the failed one is
\* still listed, still selected and still starred
C22_Witness ==
    /\ last = "unstar_selected_failed"
    /\ Len(state.repositories) = PerPage - 1
    /\ state.selection = SeqToSet(RepoIds(state.repositories))
    /\ state.selection \subseteq server
    /\ Cardinality(server) = NumRepos - 1
    /\ state.screen = "RepositoryList"

\* C23: a bulk unstar does not touch the state before its closing update;
\* when any of its results is an authentication expiry, that update is one
\* logout for the whole batch: client handle and username absent, list and
\* selection empty, screen Setup, error the fixed expiry message, the
\* credential file cleared at most once, and nothing else changed.
C23_BulkExpiryOneLogout ==
    [][/\ \A u \in Added :
             (u.kind = "unstar_selected" /\ u.pc # "spawned") => state' = state
       /\ \A t \in BulkUnstars :
             (BulkCompleted(t) /\ AnyExpired(t))
             => /\ last' \in BulkAuthTags
                /\ LoggedOut(state')
                /\ state'.error = Some("Token expired. Please login again.")
                /\ state'.token \in {None, state.token}
                /\ disk' \in {None, disk}
                /\ state' = [state EXCEPT !.github_service = None,
                                          !.username = None,
                                          !.repositories = <<>>,
                                          !.selection = {},
                                          !.screen = "Setup",
                                          !.error = state'.error,
                                          !.token = state'.token]]_vars

\* the batch whose first call succeeded and whose second met a 401 has ended
\* in the forced logout
C23_Witness ==
    /\ last = "unstar_selected_auth"
    /\ LoggedOut(state)
    /\ state.error = Some(TokenExpiredMessage)
    /\ Cardinality(server) = NumRepos - 1
    /\ disk = None
    /\ tasks = EmptyBag

\* the unstar-one whose closing update this step runs
UnstarOneCompleted(t) ==
    /\ t \in InFlight
    /\ t.kind = "unstar_one" /\ t.pc = "returned"
    /\ tasks' = tasks (-) SetToBag({t})

\* the ids this step takes out of the list
Gone ==
    SeqToSet(RepoIds(state.repositories)) \ SeqToSet(RepoIds(state'.repositories))

\* C24: an unstar task changes nothing while its call is in flight; its
\* closing update takes out of the list only repositories for which the
\* remote reported success (they are no longer starred); a failed unstar-one
\* only goes through handle_api_error with the label "Failed to unstar".
C24_UnstarPessimistic ==
    [][/\ \A u \in Added :
             u.kind \in {"unstar_one", "unstar_selected"}
             => IF u.pc = "spawned"
                THEN /\ state'.repositories = state.repositories
                     /\ state'.selection = state.selection
                     /\ server' = server
                ELSE state' = state
       /\ \A t \in InFlight :
             UnstarOneCompleted(t)
             => IF t.res.ok
                THEN /\ Gone \subseteq {t.ids[1]}
                     /\ t.ids[1] \notin server
                     /\ state' = [state EXCEPT !.repositories = state'.repositories,
                                               !.selection = state.selection \ {t.ids[1]}]
                ELSE IF is_token_expired_error(t.res.err)
                THEN /\ LoggedOut(state')
                     /\ state'.error = Some("Token expired. Please login again.")
                ELSE state' = [state EXCEPT !.error =
                                  Some("Failed to unstar: " \o t.res.err.text)]
       /\ \A t \in BulkUnstars :
             (BulkCompleted(t) /\ ~AnyExpired(t))
             => /\ Gone \subseteq Succeeded(t)
                /\ Succeeded(t) \cap server = {}]_vars

\* an unstar-one has failed with a 404: the error names the label, and the
\* repository is still listed and still starred
C24_Witness ==
    /\ last = "unstar_one_err"
    /\ state.error # None
    /\ server = Repos
    /\ Len(state.repositories) = PerPage
    /\ state.screen = "RepositoryList"

\* the unstar tasks this step launches
UnstarSpawned ==
    {u \in Added : u.kind \in {"unstar_one", "unstar_selected"} /\ u.pc = "spawned"}

\* this step is the logout the user asked for
UserLogout == last' \in {"logout", "logout_io"}

\* this step changes pending_action and nothing else
OnlyPendingChanges ==
    /\ state' = [state EXCEPT !.pending_action = state'.pending_action]
    /\ tasks' = tasks
    /\ server' = server
    /\ disk' = disk

\* C25: a step that sets pending_action changes nothing else; an unstar
\* task is launched, and the user's logout runs, only in a step that starts
\* with the matching pending_action and ends with it cleared; any other step
\* that clears pending_action changes nothing else; the remote loses a star
\* only through a launched unstar task.
C25_ConfirmationGating ==
    [][/\ (state'.pending_action # state.pending_action /\ state'.pending_action # None)
          => OnlyPendingChanges
       /\ \A u \in UnstarSpawned :
             /\ state.pending_action # None
             /\ state'.pending_action = None
             /\ u.kind = "unstar_one"
                => state.pending_action = Some(UnstarSingle(u.ids[1]))
             /\ u.kind = "unstar_selected"
                => Unwrap(state.pending_action).kind = "UnstarSelected"
       /\ UserLogout
          => state.pending_action = Some(Logout) /\ state'.pending_action = None
       /\ (state.pending_action # None /\ state'.pending_action = None)
          => \/ UnstarSpawned # {}
             \/ UserLogout
             \/ OnlyPendingChanges
       /\ server' # server
          => \E t \in InFlight :
                /\ t.kind \in {"unstar_one", "unstar_selected"}
                /\ CopiesIn(t, tasks') < CopiesIn(t, tasks)]_vars

\* an unstar-one is in flight after its confirmation, pending_action cleared
C25_Witness ==
    /\ state.pending_action = None
    /\ state.screen = "RepositoryList"
    /\ \E t \in InFlight :
          /\ t.kind = "unstar_one"
          /\ t.pc = "returned"
          /\ t.res.ok
          /\ t.ids[1] \notin server
          /\ t.ids[1] \in SeqToSet(RepoIds(state.repositories))

\* C26: a click on another sort field sets that field and direction Asc; a
\* click on the active field, or on the direction indicator, flips the
\* direction and keeps the field; two direction toggles in a row give back
\* the direction they started from. No click changes any other field.
C26_SortTransitions ==
    [][/\ (call'.fn = "sort_field_click" /\ call'.field # state.sort_field)
          => /\ state'.sort_field = call'.field
             /\ state'.sort_direction = "Asc"
       /\ \/ call'.fn = "sort_field_click" /\ call'.field = state.sort_field
          \/ call'.fn = "sort_direction_click"
          => /\ state'.sort_field = state.sort_field
             /\ state'.sort_direction # state.sort_direction
             /\ state'.sort_direction \in {"Asc", "Desc"}
       /\ (call.fn = "sort_direction_click" /\ call'.fn = "sort_direction_click")
          => /\ state'.sort_direction = call.before.sort_direction
             /\ state'.sort_field = call.before.sort_field
       /\ state' = [state EXCEPT !.sort_field = state'.sort_field,
                                 !.sort_direction = state'.sort_direction]]_vars

\* the direction was toggled twice from Desc and is Desc again
C26_Witness ==
    /\ last = "sort_direction_click"
    /\ call.fn = "sort_direction_click"
    /\ call.before.sort_direction = "Asc"
    /\ state.sort_direction = "Desc"
    /\ clicks = 2

\* this step changes the sort field or the sort direction
SortChanged ==
    \/ state'.sort_field # state.sort_field
    \/ state'.sort_direction # state.sort_direction

\* the reload tasks this step launches
ReloadSpawned == {u \in Added : u.kind = "reload" /\ u.pc = "spawned"}

\* C27: a sort change made while loading or loading_more is set launches
\* nothing, and it is not queued either: a reload is launched only by the
\* step of a sort change that finds both flags clear, never by the step in
\* which a load finishes.
C27_SortChangeNotQueued ==
    [][/\ (SortChanged /\ (state.loading \/ state.loading_more))
          => tasks' = tasks
       /\ ReloadSpawned # {}
          => /\ SortChanged
             /\ clicks' = clicks + 1
             /\ ~state.loading /\ ~state.loading_more
             /\ Cardinality(ReloadSpawned) = 1
             /\ \A u \in ReloadSpawned : CopiesIn(u, tasks') = CopiesIn(u, tasks) + 1
       /\ clicks' = clicks => ReloadSpawned = {}]_vars

\* a sort field was chosen during a load-more; the load-more has finished,
\* nothing is in flight, and the first page is still the one fetched under
\* the sort configuration the program started with
C27_Witness ==
    /\ tasks = EmptyBag
    /\ last = "more_ok"
    /\ ~state.loading /\ ~state.loading_more
    /\ state.sort_field # from_config(None).sort_field
    /\ Len(state.repositories) > PerPage
    /\ RepoIds(SubSeq(state.repositories, 1, PerPage))
          = RemotePage(server, field_api_value(from_config(None).sort_field),
                       direction_api_value(from_config(None).sort_direction),
                       PerPage, 1)
    /\ RepoIds(SubSeq(state.repositories, 1, PerPage)) # ServerPage(1)

\* C28: the state built from the persisted config shows Loading exactly when
\* the config holds a non-empty credential and Setup otherwise, with
\* current_page 1, has_more true, an empty list and selection, no error and
\* no pending action.
C28_InitialState ==
    last = "new"
    => /\ state.screen = "Loading" <=> (disk # None /\ Unwrap(disk) # "")
       /\ state.screen \in {"Loading", "Setup"}
       /\ state.token = disk
       /\ state.current_page = 1
       /\ state.has_more
       /\ state.repositories = <<>>
       /\ state.selection = {}
       /\ state.error = None
       /\ state.pending_action = None

\* the program has started on a config whose credential is the empty string
C28_Witness ==
    /\ last = "new"
    /\ disk = Some("")
    /\ state.screen = "Setup"
    /\ tasks = EmptyBag

---------------------------------------------------------------------------

\* the unstar-one whose closing update this step runs on a success
UnstarOneSucceeded(t) == UnstarOneCompleted(t) /\ t.res.ok

\* C29 as stated: Select All on 3 listed repositories not all selected
\* leaves all_selected true; after a successful unstar-one then takes one of
\* them out, 2 ids are selected and all_selected is false.
C29_AllSelectedFalseAfterUnstar ==
    [][/\ (/\ last' = "toggle_select_all"
           /\ Len(state.repositories) = 3
           /\ ~all_selected(state))
          => all_selected(state')
       /\ \A t \in InFlight :
             (/\ UnstarOneSucceeded(t)
              /\ all_selected(state)
              /\ Len(state.repositories) = 3
              /\ t.ids[1] \in state.selection)
             => /\ Cardinality(state'.selection) = 2
                /\ ~all_selected(state')]_vars

\* C29, as the code has it: Select All on 3 listed repositories not all
\* selected leaves all 3 selected and all_selected true; after a successful
\* unstar-one then takes one of them out of the list and of the selection,
\* 2 ids are selected of the 2 repositories left, and all_selected, computed
\* from that state, is still true.
C29_AllSelectedRecomputed ==
    [][/\ (/\ last' = "toggle_select_all"
           /\ Len(state.repositories) = 3
           /\ ~all_selected(state))
          => /\ Cardinality(state'.selection) = 3
             /\ all_selected(state')
       /\ \A t \in InFlight :
             (/\ UnstarOneSucceeded(t)
              /\ all_selected(state)
              /\ Len(state.repositories) = 3
              /\ t.ids[1] \in state.selection)
             => /\ Cardinality(state'.selection) = 2
                /\ Len(state'.repositories) = 2
                /\ all_selected(state')]_vars

\* all 3 of 3 were selected by Select All, one was unstarred with success:
\* 2 of 2 are selected
C29_Witness ==
    /\ last = "unstar_one_ok"
    /\ call.fn = "toggle_select_all"
    /\ Len(call.before.repositories) = 3
    /\ call.before.selection = {}
    /\ Len(state.repositories) = 2
    /\ Cardinality(state.selection) = 2
    /\ all_selected(state)

---------------------------------------------------------------------------

\* C30: every request fetch_starred_repos_page sends for a page >= 1 carries
\* sort "created" or "updated", direction "asc" or "desc", per_page <= 100,
\* and a page number >= 1 equal to the page the caller asked for.
C30_RequestParameters ==
    (call.fn = "fetch_starred_repos_page" /\ call.page >= 1)
    => /\ call.request.sort \in {"created", "updated"}
       /\ call.request.direction \in {"asc", "desc"}
       /\ call.request.per_page <= 100
       /\ call.request.page >= 1
       /\ call.request.page = call.page

---------------------------------------------------------------------------

\* the tasks that fetch a page: the initial load, a reload, a load-more
Loads == {t \in InFlight : t.kind \in {"init", "reload", "more"}}

\* the positions the listed repositories had in the pages they came from:
\* starred_order = (page - 1) * per_page + index, as a number
ListedOrders(st) ==
    [i \in 1..Len(st.repositories) |->
        st.repositories[i].starred_order.hi * Limb
        + st.repositories[i].starred_order.lo]

\* C31: whenever no load is in flight, the list is the in-order concatenation
\* of the pages 1..current_page as fetched, minus the repositories removed by
\* unstar: the positions are increasing and lie in pages 1..current_page,
\* and as long as nothing has been unstarred they are 0, 1, 2, ... without a
\* gap (a page k+1 is never in a list that lacks pages 1..k).
C31_ListIsLoadedPages ==
    (state.screen = "RepositoryList" /\ Loads = {})
    => LET orders == ListedOrders(state)
       IN  /\ \A i \in 1..Len(orders) :
                 /\ orders[i] < state.current_page * PerPage
                 /\ i > 1 => orders[i - 1] < orders[i]
           /\ server = Repos => \A i \in 1..Len(orders) : orders[i] = i - 1

---------------------------------------------------------------------------

\* the sort configuration of a state, as the query parameters it maps to
SortConfig(st) ==
    [sort |-> field_api_value(st.sort_field),
     direction |-> direction_api_value(st.sort_direction)]

\* the repository the remote serves at position o (from 0) of the account's
\* stars under a sort configuration, while all of Repos are starred
ServedAt(cfg, o) == RemoteOrder(cfg.sort, cfg.direction)[o + 1]

\* C32: whenever neither loading nor loading_more is set, every page in the
\* list was fetched under the sort configuration stored in the state: as
\* long as nothing has been unstarred, the repository listed with position
\* starred_order = o is the one the remote serves at position o under that
\* configuration.
C32_PagesUnderActiveSort ==
    (/\ state.screen = "RepositoryList"
     /\ ~state.loading /\ ~state.loading_more
     /\ server = Repos)
    => LET orders == ListedOrders(state)
       IN  \A i \in 1..Len(orders) :
              /\ orders[i] < NumRepos
              /\ state.repositories[i].id = ServedAt(SortConfig(state), orders[i])

---------------------------------------------------------------------------

\* C33: the loading flags are always released: once loading (loading_more)
\* is true it eventually becomes false again, in every interleaving of the
\* tasks with the intents and the logouts.
C33_FlagsReleased ==
    /\ state.loading ~> ~state.loading
    /\ state.loading_more ~> ~state.loading_more

---------------------------------------------------------------------------

\* the validations in flight
Submits == {t \in InFlight : t.kind = "submit"}

\* C34: a credential can always be submitted again on the Setup screen: the
\* setup view's validating guard is set only while a validation is in
\* flight, so whenever the Setup screen is shown and no validation is
\* running, also after a login followed by a logout, submit_token is
\* reachable from the Connect button and the Enter key.
C34_SubmitPossibleAgain ==
    (state.screen = "Setup" /\ Submits = {}) => ~view.validating

---------------------------------------------------------------------------

\* the initial loads in flight
InitLoads == {t \in InFlight : t.kind = "init"}

\* C35: an entry into the Loading screen launches one initial load: at no
\* time are two initial-load tasks in flight.
C35_OneInitialLoad ==
    \A t, u \in InitLoads : t = u /\ CopiesIn(t, tasks) = 1

---------------------------------------------------------------------------

\* C36: whenever the Setup screen is shown the repository list is empty, and
\* the Setup screen is left only by a validated credential submission: no
\* completion of a task started before a logout puts repositories back or
\* switches the screen.
C36_SetupHoldsNoList ==
    [][/\ state'.screen = "Setup" => state'.repositories = <<>>
       /\ (state.screen = "Setup" /\ state'.screen # "Setup")
          => last' = "submit_ok"]_vars

---------------------------------------------------------------------------

\* C37: whenever the repository list screen is shown, a client handle and a
\* username are present in the state.
C37_ListScreenHasSession ==
    state.screen = "RepositoryList"
    => IsSome(state.github_service) /\ IsSome(state.username)

\* the list screen is shown again after a logout of the session: an initial
\* load started before the logout has completed with success
C37_Witness ==
    /\ last = "init_ok"
    /\ state.screen = "RepositoryList"
    /\ state.token = None
    /\ state.github_service = Some(GitHubService("tok"))
    /\ state.username = Some(UserName)

---------------------------------------------------------------------------

\* C38: no pending action is left behind when the list screen is left:
\* whenever the screen is not RepositoryList, pending_action is None, also
\* after a forced logout that arrives while a confirmation is open.
C38_NoPendingOffList ==
    state.screen # "RepositoryList" => state.pending_action = None

---------------------------------------------------------------------------

\* the bulk unstar this step launches
BulkSpawned == {u \in Added : u.kind = "unstar_selected" /\ u.pc = "spawned"}

\* C39: the confirm of a pending UnstarSelected(count) submits count
\* repositories to the bulk unstar, also when a task completed while the
\* confirmation was open.
C39_ConfirmedCountSubmitted ==
    [][\A u \in BulkSpawned :
          /\ state.pending_action # None
          /\ Unwrap(state.pending_action).kind = "UnstarSelected"
          /\ Len(u.ids) = Unwrap(state.pending_action).count]_vars

---------------------------------------------------------------------------

\* page p of the account as the remote serves it to fetch_starred_repos,
\* with the positions the client numbers it with
AllPage(p) ==
    LET ids == RemotePage(server, "created", "desc", call.per_page, p)
    IN  [i \in 1..Len(ids) |->
            Repository(ids[i], U32((p - 1) * call.per_page + i - 1))]

\* pages 1..n of the account one after the other
RECURSIVE AllPages(_)
AllPages(n) == IF n = 0 THEN <<>> ELSE AllPages(n - 1) \o AllPage(n)

\* page p is full
FullPage(p) == Len(AllPage(p)) = call.per_page

\* fetch_starred_repos has returned
AllReturned == last \in {"all_err", "all_empty", "all_short", "all_limit"}

\* C40: fetch_starred_repos terminates when every page fetch returns. It
\* fetches pages 1, 2, ... in order, each after full pages only and never
\* beyond page PageLimit + 1; it returns the error of the first failed page,
\* or the concatenation in page order of the pages fetched up to the first
\* empty page, the first page shorter than the page size, or page
\* PageLimit + 1.
C40_FetchAllTerminates ==
    /\ [](call.fn = "fetch_starred_repos"
          => /\ call.page \in 1..(PageLimit + 1)
             /\ \A p \in 1..(call.page - 1) : FullPage(p)
             /\ AllRunning => call.res.repos = AllPages(call.page - 1)
             /\ last = "all_err" => ~call.res.ok /\ call.res.err # NoErr
             /\ last = "all_empty"
                => /\ AllPage(call.page) = <<>>
                   /\ call.res.ok
                   /\ call.res.repos = AllPages(call.page - 1)
             /\ last = "all_short"
                => /\ AllPage(call.page) # <<>> /\ ~FullPage(call.page)
                   /\ call.res.ok
                   /\ call.res.repos = AllPages(call.page)
             /\ last = "all_limit"
                => /\ FullPage(call.page) /\ call.page = PageLimit + 1
                   /\ call.res.ok
                   /\ call.res.repos = AllPages(call.page))
    /\ (call.fn = "fetch_starred_repos") ~> AllReturned

\* the loop has stopped after page PageLimit + 1 on an account with more
\* stars than that: it returns the pages fetched
C40_Witness ==
    /\ last = "all_limit"
    /\ call.page = PageLimit + 1
    /\ server = Repos
    /\ Len(call.res.repos) = (PageLimit + 1) * call.per_page
    /\ Len(call.res.repos) < NumRepos

====
